---- MODULE Spec2Model ----
(***************************************************************************)
(* SecretVault (joshcrafts/fhesecret): the on-chain entry store            *)
(* (contracts/SecretVault.sol), the hardhat tasks that store and decrypt   *)
(* entries (tasks/SecretVault.ts) and the web client's store and decrypt   *)
(* handlers (ui/src/components/SecretApp.tsx).                             *)
(*                                                                         *)
(* A string is a sequence of code points, a byte string a sequence of      *)
(* 0..255.  A uint256 / uint160 is its big-endian byte string without      *)
(* leading zero bytes (what BigInt(hex) keeps of a hex string).            *)
(***************************************************************************)
EXTENDS Integers, Sequences, FiniteSets, TLC

VARIABLES
    entries,    \* SecretVault.entries : owner -> sequence of SecretEntry
    acl,        \* the FHE access-control list: set of <<handle, principal>>
    events,     \* the SecretStored log, in emission order
    now,        \* the clock (block.timestamp, Date.now), in days
    stored,     \* history: per owner, the entry and the proof each successful
                \* store submitted and, for a store command, its
                \* <<address, text>>
    last,       \* what the latest step called, and its outcome
    ui          \* the web client's component state

vars == <<entries, acl, events, now, stored, last, ui>>

----------------------------------------------------------------------------
(* Bounds of the model *)

MaxStores == 2          \* storeSecret transactions mined in Spec
MaxTime == 1            \* last block timestamp in Spec
MaxCmdStores == 2       \* store commands that succeed in SpecCmd
MaxClock == 8           \* last clock value in SpecSession
MaxSessions == 1        \* decryption sessions started in SpecSession
MaxMined == 3           \* storeSecret transactions mined in SpecStores
MaxStarted == 2         \* decryption sessions started in SpecRetry

(* Program constants *)

MAX_SECRET_BYTES == 31  \* tasks/SecretVault.ts:6, SecretApp.tsx:17
SlotBytes == 32         \* the bytes32 slot of encodeBytes32String
AddressBytes == 20      \* toBeHex(value, 20)
DurationDays == 7       \* SecretApp.tsx:214

----------------------------------------------------------------------------
(* Byte strings, UTF-8 and the bytes32 string codec of ethers *)

RECURSIVE Zeros(_)
Zeros(n) == IF n <= 0 THEN <<>> ELSE <<0>> \o Zeros(n - 1)

RECURSIVE Repeat(_, _)
Repeat(s, n) == IF n <= 0 THEN <<>> ELSE s \o Repeat(s, n - 1)

\* UTF-8 encoding of one code point (below U+10000)
Utf8Char(c) ==
    IF c < 128 THEN <<c>>
    ELSE IF c < 2048 THEN <<192 + (c \div 64), 128 + (c % 64)>>
    ELSE <<224 + (c \div 4096), 128 + ((c \div 64) % 64), 128 + (c % 64)>>

RECURSIVE toUtf8Bytes(_)
toUtf8Bytes(str) ==
    IF str = <<>> THEN <<>> ELSE Utf8Char(Head(str)) \o toUtf8Bytes(Tail(str))

\* Buffer.byteLength(secret, "utf8") and new TextEncoder().encode(value).length
getUtf8ByteLength(value) == Len(toUtf8Bytes(value))

\* toUtf8String: [ok, val]; ok is FALSE on a malformed sequence (it throws)
RECURSIVE toUtf8String(_)
toUtf8String(bytes) ==
    IF bytes = <<>> THEN [ok |-> TRUE, val |-> <<>>]
    ELSE LET b == Head(bytes)
             n == IF b < 128 THEN 1
                  ELSE IF b >= 192 /\ b < 224 THEN 2
                  ELSE IF b >= 224 /\ b < 240 THEN 3
                  ELSE 0
         IN IF n = 0 \/ Len(bytes) < n
               \/ (\E i \in 2..n : bytes[i] < 128 \/ bytes[i] >= 192)
            THEN [ok |-> FALSE, val |-> <<>>]
            ELSE LET c == IF n = 1 THEN b
                          ELSE IF n = 2 THEN (b - 192) * 64 + (bytes[2] - 128)
                          ELSE (b - 224) * 4096 + (bytes[2] - 128) * 64
                               + (bytes[3] - 128)
                     rest == toUtf8String(SubSeq(bytes, n + 1, Len(bytes)))
                 IN IF rest.ok THEN [ok |-> TRUE, val |-> <<c>> \o rest.val]
                    ELSE rest

\* zeroPadBytes(bytes, 32): pads on the right
zeroPadBytes(bytes, width) == bytes \o Zeros(width - Len(bytes))

\* ethers encodeBytes32String: [ok, val]; throws above 31 bytes
encodeBytes32String(text) ==
    LET bytes == toUtf8Bytes(text)
    IN IF Len(bytes) > SlotBytes - 1 THEN [ok |-> FALSE, val |-> <<>>]
       ELSE [ok |-> TRUE, val |-> zeroPadBytes(bytes, SlotBytes)]

\* BigInt("0x..."): the value of the hex string; leading zero bytes are gone
RECURSIVE BigInt(_)
BigInt(hex) ==
    IF hex # <<>> /\ Head(hex) = 0 THEN BigInt(Tail(hex)) ELSE hex

\* toBeHex(value, width): pads on the left; throws when value exceeds width
toBeHex(value, width) ==
    IF Len(value) > width THEN [ok |-> FALSE, val |-> <<>>]
    ELSE [ok |-> TRUE, val |-> Zeros(width - Len(value)) \o value]

\* the length ethers keeps: trailing zero bytes are dropped
RECURSIVE TrimLength(_, _)
TrimLength(data, length) ==
    IF length > 0 /\ data[length] = 0 THEN TrimLength(data, length - 1)
    ELSE length

\* ethers decodeBytes32String: [ok, val]
decodeBytes32String(data) ==
    IF Len(data) # SlotBytes THEN [ok |-> FALSE, val |-> <<>>]
    ELSE IF data[SlotBytes] # 0 THEN [ok |-> FALSE, val |-> <<>>]
    ELSE toUtf8String(SubSeq(data, 1, TrimLength(data, SlotBytes - 1)))

\* getAddress: [ok, val]; throws unless the value is a 20-byte address
getAddress(a) ==
    IF Len(a) = AddressBytes THEN [ok |-> TRUE, val |-> a]
    ELSE [ok |-> FALSE, val |-> <<>>]

\* tasks/SecretVault.ts encodeSecretToUint256: [ok, err, val]
encodeSecretToUint256(secret) ==
    LET length == getUtf8ByteLength(secret)
    IN IF length = 0 THEN [ok |-> FALSE, err |-> "InvalidInput", val |-> <<>>]
       ELSE IF length > MAX_SECRET_BYTES
            THEN [ok |-> FALSE, err |-> "InvalidInput", val |-> <<>>]
       ELSE [ok |-> TRUE, err |-> "",
             val |-> BigInt(encodeBytes32String(secret).val)]

\* tasks/SecretVault.ts decodeSecretFromUint256: [ok, val]
decodeSecretFromUint256(value) ==
    LET hexValue == toBeHex(value, SlotBytes)
    IN IF hexValue.ok THEN decodeBytes32String(hexValue.val)
       ELSE [ok |-> FALSE, val |-> <<>>]

\* SecretApp.tsx decodeSecretValue: the text, or the hex when decoding throws
decodeSecretValue(value) ==
    LET secretHex == toBeHex(BigInt(value), SlotBytes)
        text == decodeBytes32String(secretHex.val)
    IN IF ~secretHex.ok THEN [ok |-> FALSE, val |-> <<>>]
       ELSE IF text.ok THEN text
       ELSE [ok |-> TRUE, val |-> secretHex.val]

\* getAddress(toBeHex(BigInt(clearKey), 20)), SecretApp.tsx decodeAddressValue
decodeAddressValue(value) ==
    LET addressHex == toBeHex(BigInt(value), AddressBytes)
    IN IF addressHex.ok THEN getAddress(addressHex.val)
       ELSE [ok |-> FALSE, val |-> <<>>]

----------------------------------------------------------------------------
(* Principals, ciphertext handles and input proofs *)

Vault == "vault"                \* address(this), CONTRACT_ADDRESS
OtherContract == "other"        \* some other contract
Users == {"alice", "bob"}       \* the externally owned accounts
Principals == Users \cup {Vault, OtherContract}
Callers == Users \cup {OtherContract}   \* who may call the vault

Range(f) == {f[x] : x \in DOMAIN f}

\* the relayer's createEncryptedInput(contract, user).addAddress(a).add256(v)
\* .encrypt(): two handles and one proof for the (contract, user) context.
\* n tells two encryptions of the same values apart (the ciphertext is
\* randomised).  The service holds each handle's plaintext (val).
createEncryptedInput(contractAddress, userAddress, keyAddress, secretValue, n) ==
    LET h0 == [ctx |-> contractAddress, user |-> userAddress,
               kind |-> "eaddress", val |-> BigInt(keyAddress), n |-> n]
        h1 == [ctx |-> contractAddress, user |-> userAddress,
               kind |-> "euint256", val |-> secretValue, n |-> n]
    IN [handles |-> <<h0, h1>>,
        inputProof |-> [ctx |-> contractAddress, user |-> userAddress,
                        handles |-> <<h0, h1>>]]

\* FHE.fromExternal(input, inputProof): the proof must authenticate the
\* ciphertext for (this contract, msg.sender) and the ciphertext must have the
\* declared type; otherwise the call reverts.  The handle is passed through.
FromExternal(input, inputProof, sender, kind) ==
    [ok |-> /\ inputProof.ctx = Vault
            /\ inputProof.user = sender
            /\ input \in Range(inputProof.handles)
            /\ input.kind = kind,
     handle |-> input]

\* a grant that reaches every account
AllowEveryone(list, handle, account) ==
    list \cup {<<handle, p>> : p \in Users \cup {account}}

\* FHE.allow(handle, account) and FHE.allowThis(handle)
Allow(list, handle, account) == list \cup {<<handle, account>>}
AllowThis(list, handle) == Allow(list, handle, Vault)

isAuthorized(list, handle, principal) == <<handle, principal>> \in list

----------------------------------------------------------------------------
(* contracts/SecretVault.sol *)

\* the contract's storage and its effects on the ledger
Ledger == [entries |-> entries, acl |-> acl, events |-> events]

\* only the key's verification is looked at
InputsVerifiedKeyOnly(key, secret) == key.ok

\* one verified ciphertext is enough
InputsVerifiedEither(key, secret) == key.ok \/ secret.ok

\* both FHE.fromExternal calls returned (lines 29-30)
InputsVerified(key, secret) == key.ok /\ secret.ok

\* the last slot is written instead of a new one
PushEntryOverwrite(list, entry) ==
    IF list = <<>> THEN <<entry>> ELSE [list EXCEPT ![Len(list)] = entry]

\* the new entry is put in front
PushEntryFront(list, entry) == <<entry>> \o list

\* an entry equal to one already in the list is not added again
PushEntryOnce(list, entry) ==
    IF \E i \in 1..Len(list) : list[i] = entry THEN list
    ELSE Append(list, entry)

\* entries[msg.sender].push(SecretEntry{...}) (lines 32-34)
PushEntry(list, entry) == Append(list, entry)

\* the owner's grant on the secret is left out
GrantAccessNoOwnerSecret(list, key, secret, sender) ==
    Allow(AllowThis(AllowThis(list, key), secret), key, sender)

\* both handles are also granted to the other accounts
GrantAccessPublic(list, key, secret, sender) ==
    {<<h, p>> : h \in {key, secret}, p \in Users \cup {Vault}} \cup list

\* the list is started anew with the four grants
GrantAccessReset(list, key, secret, sender) ==
    {<<h, p>> : h \in {key, secret}, p \in {Vault, sender}}

\* the four grants (lines 38-41)
GrantAccess(list, key, secret, sender) ==
    Allow(Allow(AllowThis(AllowThis(list, key), secret), key, sender),
          secret, sender)

\* every owner's list receives the entry
StoreEntryShared(map, sender, entry) ==
    [o \in DOMAIN map |-> PushEntry(map[o], entry)]

\* entries[msg.sender].push(...): only the sender's list grows (line 32)
StoreEntry(map, sender, entry) ==
    [map EXCEPT ![sender] = PushEntry(@, entry)]

\* the position among all the entries of the vault
EntryIndexGlobal(map, sender) ==
    LET Total[S \in SUBSET DOMAIN map] ==
            IF S = {} THEN 0
            ELSE LET o == CHOOSE x \in S : TRUE
                 IN Len(map[o]) + Total[S \ {o}]
    IN Total[DOMAIN map] - 1

\* uint256 index = entries[msg.sender].length - 1 (line 36)
EntryIndex(map, sender) == Len(map[sender]) - 1

\* the event carries no block timestamp
EmitSecretStoredUnstamped(log, owner, index, timestamp) ==
    Append(log, [owner |-> owner, index |-> index, timestamp |-> 0])

\* the event is emitted twice
EmitSecretStoredTwice(log, owner, index, timestamp) ==
    log \o <<[owner |-> owner, index |-> index, timestamp |-> timestamp],
             [owner |-> owner, index |-> index, timestamp |-> timestamp]>>

\* emit SecretStored(msg.sender, index, block.timestamp) (line 43)
EmitSecretStored(log, owner, index, timestamp) ==
    Append(log, [owner |-> owner, index |-> index, timestamp |-> timestamp])

\* storeSecret(encryptedKey, encryptedSecret, inputProof) sent by sender in a
\* block of timestamp ts; a revert leaves the ledger as it was
storeSecret(st, sender, encryptedKey, encryptedSecret, inputProof, ts) ==
    LET key == FromExternal(encryptedKey, inputProof, sender, "eaddress")
        secret == FromExternal(encryptedSecret, inputProof, sender, "euint256")
    IN IF ~InputsVerified(key, secret)
       THEN [ok |-> FALSE, err |-> "InvalidProof", st |-> st]
       ELSE LET pushed == StoreEntry(st.entries, sender,
                              [encryptedKey |-> key.handle,
                               encryptedSecret |-> secret.handle,
                               createdAt |-> ts])
                index == EntryIndex(pushed, sender)
            IN [ok |-> TRUE, err |-> "",
                st |-> [entries |-> pushed,
                        acl |-> GrantAccess(st.acl, key.handle, secret.handle,
                                            sender),
                        events |-> EmitSecretStored(st.events, sender, index,
                                                    ts)]]

\* getSecretCount(owner)
getSecretCount(st, owner) == Len(st.entries[owner])

\* the array bounds check of entries[owner][index] (line 56)
InRange(list, index) == index < Len(list)

\* an index past the end reads the last entry
getSecretEntryClamped(st, owner, index) ==
    IF st.entries[owner] = <<>>
    THEN [ok |-> FALSE, err |-> "IndexOutOfRange", entry |-> <<>>]
    ELSE [ok |-> TRUE, err |-> "",
          entry |-> <<st.entries[owner][IF index < Len(st.entries[owner])
                                        THEN index + 1
                                        ELSE Len(st.entries[owner])]>>]

\* getSecretEntry(owner, index): a Panic revert when index is out of range
getSecretEntry(st, owner, index) ==
    IF ~InRange(st.entries[owner], index)
    THEN [ok |-> FALSE, err |-> "IndexOutOfRange", entry |-> <<>>]
    ELSE [ok |-> TRUE, err |-> "", entry |-> <<st.entries[owner][index + 1]>>]

\* getSecretCount(owner) called with msg.sender = caller (lines 48-50)
CallGetSecretCount(st, caller, owner) == getSecretCount(st, owner)

\* only the owner may read its entries
CallGetSecretEntryOwnerOnly(st, caller, owner, index) ==
    IF caller # owner
    THEN [ok |-> FALSE, err |-> "NotOwner", entry |-> <<>>]
    ELSE getSecretEntry(st, owner, index)

\* getSecretEntry(owner, index) called with msg.sender = caller (lines 55-58)
CallGetSecretEntry(st, caller, owner, index) ==
    getSecretEntry(st, owner, index)

----------------------------------------------------------------------------
(* The confidential-computing service's user decryption *)

\* decrypt(batch, authorization, signature) as the service evaluates it at
\* time t for the signer of the authorization: every handle needs a grant for
\* the signer and a target contract of the authorization, and t must lie in
\* the authorization's window.  batch is a sequence of
\* [handle, contractAddress], auth is [contractAddresses, startTimeStamp,
\* durationDays].
userDecrypt(list, batch, signer, auth, t) ==
    IF \E i \in DOMAIN batch :
           \/ ~isAuthorized(list, batch[i].handle, signer)
           \/ batch[i].contractAddress \notin auth.contractAddresses
    THEN [outcome |-> "Denied", err |-> "Unauthorized", vals |-> <<>>]
    ELSE IF t < auth.startTimeStamp
            \/ t >= auth.startTimeStamp + auth.durationDays
    THEN [outcome |-> "Expired", err |-> "AuthorizationExpired", vals |-> <<>>]
    ELSE [outcome |-> "Fulfilled", err |-> "",
          vals |-> [i \in DOMAIN batch |-> batch[i].handle.val]]

\* the hardhat plugin's fhevm.userDecryptEuint(type, handle, contract, signer):
\* one handle, with an authorization the plugin builds and signs on the spot
userDecryptEuint(list, handle, contractAddress, signer, t) ==
    userDecrypt(list,
                <<[handle |-> handle, contractAddress |-> contractAddress]>>,
                signer,
                [contractAddresses |-> {contractAddress},
                 startTimeStamp |-> t, durationDays |-> DurationDays],
                t)

----------------------------------------------------------------------------
(* tasks/SecretVault.ts task:decrypt-secret *)

\* the account the task decrypts with: signers[0], whatever --owner says
DecryptSigner(signer, owner) == signer

\* [ok, err, outcome, value]; value is <<address, secret text>> when ok
TaskDecryptSecret(st, signer, owner, index, t) ==
    IF index < 0
    THEN [ok |-> FALSE, err |-> "InvalidInput", outcome |-> "", value |-> <<>>]
    ELSE
    LET entry == getSecretEntry(st, owner, index)
    IN IF ~entry.ok
       THEN [ok |-> FALSE, err |-> entry.err, outcome |-> "", value |-> <<>>]
       ELSE
       LET who == DecryptSigner(signer, owner)
           clearKey == userDecryptEuint(st.acl, entry.entry[1].encryptedKey,
                                        Vault, who, t)
           clearSecret == userDecryptEuint(st.acl,
                                           entry.entry[1].encryptedSecret,
                                           Vault, who, t)
       IN IF clearKey.outcome # "Fulfilled"
          THEN [ok |-> FALSE, err |-> clearKey.err,
                outcome |-> clearKey.outcome, value |-> <<>>]
          ELSE IF clearSecret.outcome # "Fulfilled"
          THEN [ok |-> FALSE, err |-> clearSecret.err,
                outcome |-> clearSecret.outcome, value |-> <<>>]
          ELSE
          LET decryptedAddress == decodeAddressValue(clearKey.vals[1])
              decryptedSecret ==
                  decodeSecretFromUint256(BigInt(clearSecret.vals[1]))
          IN IF ~decryptedAddress.ok \/ ~decryptedSecret.ok
             THEN [ok |-> FALSE, err |-> "DecodeError",
                   outcome |-> "Fulfilled", value |-> <<>>]
             ELSE [ok |-> TRUE, err |-> "", outcome |-> "Fulfilled",
                   value |-> <<decryptedAddress.val, decryptedSecret.val>>]

----------------------------------------------------------------------------
(* tasks/SecretVault.ts task:store-secret *)

\* what the task has called before it looks at --key and --secret:
\* fhevm.initializeCLIApi(), deployments.get("SecretVault"), ethers.getSigners()
TaskStorePrelude == <<"initializeCLIApi", "deployments.get", "getSigners">>

\* [ok, err, net, st]; net lists the calls that left the task, in order
TaskStoreSecret(st, signer, key, secret, n, t) ==
    LET keyAddress == getAddress(key)
        secretValue == encodeSecretToUint256(secret)
    IN IF ~keyAddress.ok
       THEN [ok |-> FALSE, err |-> "InvalidInput", net |-> TaskStorePrelude,
             st |-> st]
       ELSE IF ~secretValue.ok
       THEN [ok |-> FALSE, err |-> secretValue.err, net |-> TaskStorePrelude,
             st |-> st]
       ELSE LET encryptedInput ==
                    createEncryptedInput(Vault, signer, keyAddress.val,
                                         secretValue.val, n)
                tx == storeSecret(st, signer, encryptedInput.handles[1],
                                  encryptedInput.handles[2],
                                  encryptedInput.inputProof, t)
            IN [ok |-> tx.ok, err |-> tx.err,
                net |-> TaskStorePrelude \o <<"encrypt", "storeSecret">>,
                st |-> tx.st]

----------------------------------------------------------------------------
(* Inputs *)

AddrA == <<0>> \o Repeat(<<17>>, AddressBytes - 1)   \* 0x0011...11
AddrB == Repeat(<<171>>, AddressBytes)               \* 0xabab...ab

TextA == <<97>>                                      \* "a"

AddrBad == Repeat(<<171>>, AddressBytes - 1)         \* one byte short

TextNulEnd == <<97, 0>>                              \* "a\u0000"
TextMulti == <<0, 233, 8364>>                        \* "\u0000\u00e9\u20ac"
Text31 == Repeat(<<233>>, 15) \o <<97>>              \* 31 bytes in 16 chars
Text31Ascii == Repeat(<<97>>, MAX_SECRET_BYTES)      \* 31 bytes
Text32 == Repeat(<<233>>, 16)                        \* 32 bytes in 16 chars
Text32Ascii == Repeat(<<97>>, MAX_SECRET_BYTES + 1)  \* 32 bytes

\* the --secret and --key values the store commands of SpecCmd draw from
CmdSecrets ==
    {<<>>, TextA, TextNulEnd, TextMulti, Text31, Text31Ascii, Text32,
     Text32Ascii}
CmdKeys == {AddrA, AddrBad}

Nonces == {1, 2}

\* the encrypted inputs the calls of Spec draw from: two per user for the
\* vault, and one made for another contract
EncInputs ==
    {createEncryptedInput(Vault, u, AddrA, encodeSecretToUint256(TextA).val, n) :
        u \in Users, n \in Nonces}
    \cup {createEncryptedInput(OtherContract, "alice", AddrA,
                               encodeSecretToUint256(TextA).val, 1)}

\* storeSecret arguments: the key of one input, the secret of another (or the
\* same), with the proof of either; and one input's handles swapped
StoreArgs ==
    UNION {{[key |-> a.handles[1], secret |-> b.handles[2],
             proof |-> p.inputProof] : p \in {a, b}} :
           a \in EncInputs, b \in EncInputs}
    \cup {[key |-> a.handles[2], secret |-> a.handles[1],
           proof |-> a.inputProof] : a \in EncInputs}

----------------------------------------------------------------------------
(* State *)

NoCall ==
    [op |-> "none", caller |-> "", owner |-> "", index |-> 0, ok |-> TRUE,
     err |-> "", outcome |-> "", keyOk |-> TRUE, secretOk |-> TRUE,
     count |-> 0, entry |-> <<>>, value |-> <<>>, input |-> <<>>,
     net |-> <<>>, at |-> 0]

\* SecretApp's state after mounting: no account connected, nothing decrypted.
\* sessions are the calls of handleDecryptEntry, in the order they began.
UiInit ==
    [address |-> "", instance |-> FALSE, secretInput |-> <<>>,
     randomAddress |-> <<>>, submitStatus |-> "", decryptingIndex |-> -1,
     decryptedEntries |-> <<>>, formError |-> "", sessions |-> <<>>]

Init ==
    /\ entries = [u \in Users |-> <<>>]
    /\ acl = {}
    /\ events = <<>>
    /\ now = 0
    /\ stored = [u \in Users |-> <<>>]
    /\ last = NoCall
    /\ ui = UiInit

\* commit a call's ledger
Commit(st) ==
    /\ entries' = st.entries
    /\ acl' = st.acl
    /\ events' = st.events

----------------------------------------------------------------------------
(* Calls of the contract *)

\* a storeSecret transaction mined at the current block timestamp
StoreSecretTx(sender, a) ==
    /\ LET r == storeSecret(Ledger, sender, a.key, a.secret, a.proof, now)
       IN /\ Commit(r.st)
          /\ stored' = IF r.ok
                       THEN [stored EXCEPT ![sender] =
                               Append(@, [entry |-> [encryptedKey |-> a.key,
                                                     encryptedSecret |-> a.secret,
                                                     createdAt |-> now],
                                          proof |-> a.proof,
                                          input |-> <<>>])]
                       ELSE stored
          /\ last' = [NoCall EXCEPT
                        !.op = "store", !.caller = sender, !.owner = sender,
                        !.ok = r.ok, !.err = r.err, !.at = now,
                        !.keyOk = FromExternal(a.key, a.proof, sender,
                                               "eaddress").ok,
                        !.secretOk = FromExternal(a.secret, a.proof, sender,
                                                  "euint256").ok]
    /\ UNCHANGED <<now, ui>>

StoreSecret(sender, a) ==
    /\ Len(events) < MaxStores
    /\ StoreSecretTx(sender, a)

\* a getSecretCount call made by caller
GetSecretCount(caller, owner) ==
    /\ last' = [NoCall EXCEPT !.op = "count", !.caller = caller,
                              !.owner = owner,
                              !.count = CallGetSecretCount(Ledger, caller,
                                                           owner)]
    /\ UNCHANGED <<entries, acl, events, now, stored, ui>>

\* a getSecretEntry call made by caller
GetSecretEntry(caller, owner, index) ==
    /\ LET r == CallGetSecretEntry(Ledger, caller, owner, index)
       IN last' = [NoCall EXCEPT !.op = "get", !.caller = caller,
                                 !.owner = owner,
                                 !.index = index, !.ok = r.ok, !.err = r.err,
                                 !.entry = r.entry]
    /\ UNCHANGED <<entries, acl, events, now, stored, ui>>

\* task:decrypt-secret run by signer with --owner and --index
DecryptSecret(signer, owner, index) ==
    /\ LET r == TaskDecryptSecret(Ledger, signer, owner, index, now)
       IN last' = [NoCall EXCEPT !.op = "decrypt", !.caller = signer,
                                 !.owner = owner, !.index = index,
                                 !.ok = r.ok, !.err = r.err,
                                 !.outcome = r.outcome, !.value = r.value]
    /\ UNCHANGED <<entries, acl, events, now, stored, ui>>

\* a later block: no call is made
Tick ==
    /\ now < MaxTime
    /\ now' = now + 1
    /\ last' = NoCall
    /\ UNCHANGED <<entries, acl, events, stored, ui>>

Next ==
    \/ \E sender \in Users, a \in StoreArgs : StoreSecret(sender, a)
    \/ \E caller \in Callers, owner \in Users : GetSecretCount(caller, owner)
    \/ \E caller \in Callers, owner \in Users, index \in 0..MaxStores :
           GetSecretEntry(caller, owner, index)
    \/ \E signer \in Users, owner \in Users, index \in -1..MaxStores :
           DecryptSecret(signer, owner, index)
    \/ Tick

Spec == Init /\ [][Next]_vars

----------------------------------------------------------------------------
(* Properties of the contract (Spec) *)

EntryHandles(e) == {e.encryptedKey, e.encryptedSecret}

\* the step just taken was a successful storeSecret by o
StoredBy(o) == stored'[o] # stored[o]

\* C1: count(owner) is 0 until the owner's first successful store, every
\* successful store by an owner adds exactly 1 to that owner's count, and
\* count never fails and never decreases.
C1_MonotonicCount ==
    [][/\ \A o \in Users :
            /\ stored[o] = <<>> => getSecretCount(Ledger, o) = 0
            /\ getSecretCount(Ledger, o) = Len(stored[o])
            /\ getSecretCount(Ledger', o) >= getSecretCount(Ledger, o)
            /\ StoredBy(o) =>
                   getSecretCount(Ledger', o) = getSecretCount(Ledger, o) + 1
       /\ last'.op = "count" =>
              /\ last'.ok
              /\ last'.count = Len(stored'[last'.owner])]_vars

C1_Witness ==
    \E o \in Users :
        /\ Len(stored[o]) = 2
        /\ last.op = "count" /\ last.owner = o /\ last.count = 2

\* C2: an owner's entries are append-only: what get(owner, i) returns once,
\* it returns after every later step; no entry is changed, removed or moved.
C2_AppendOnly ==
    [][\A o \in Users : \A i \in 0..(Len(entries[o]) - 1) :
           getSecretEntry(Ledger', o, i) = getSecretEntry(Ledger, o, i)]_vars

C2_Witness ==
    \E o \in Users :
        /\ Len(entries[o]) = 2
        /\ entries[o][1].encryptedKey # entries[o][2].encryptedKey

\* C3: a storeSecret call in which the proof does not verify for the key or
\* for the secret fails with InvalidProof and changes nothing: no count, no
\* entry, no grant, no event.
C3_AtomicIngestion ==
    [][(last'.op = "store" /\ (~last'.keyOk \/ ~last'.secretOk)) =>
           /\ ~last'.ok
           /\ last'.err = "InvalidProof"
           /\ UNCHANGED <<entries, acl, events, stored>>
           /\ \A o \in Users :
                  getSecretCount(Ledger', o) = getSecretCount(Ledger, o)]_vars

C3_Witness ==
    /\ last.op = "store" /\ last.keyOk /\ ~last.secretOk
    /\ ~last.ok /\ last.err = "InvalidProof"
    /\ Len(events) > 0

\* C4: every counted entry is complete: it has a key handle and a secret
\* handle, and both are granted to the store and to the owner.
C4_CompleteEntries ==
    \A o \in Users : \A i \in 0..(getSecretCount(Ledger, o) - 1) :
        LET r == getSecretEntry(Ledger, o, i)
        IN /\ r.ok
           /\ r.entry[1].encryptedKey.kind = "eaddress"
           /\ r.entry[1].encryptedSecret.kind = "euint256"
           /\ \A h \in EntryHandles(r.entry[1]) :
                  /\ isAuthorized(acl, h, Vault)
                  /\ isAuthorized(acl, h, o)

C4_Witness ==
    /\ last.op = "get" /\ last.ok /\ last.index = 1
    /\ Len(events) = 2

\* C5: a handle stored in an entry is granted to the store and to the owner
\* who ingested it, and to nobody else.
C5_GrantsOnlyStoreAndOwner ==
    /\ \A o \in Users : \A i \in 1..Len(entries[o]) :
           \A h \in EntryHandles(entries[o][i]) : \A p \in Principals :
               isAuthorized(acl, h, p) => p \in {Vault, o}
    /\ \A g \in acl : g[2] \in {Vault, g[1].user}

C5_Witness ==
    /\ \A o \in Users : Len(entries[o]) > 0
    /\ \E g \in acl : g[2] = "bob"

\* C6: a decryption by a signer without a grant on a requested handle ends
\* Denied with Unauthorized, never Fulfilled, although its authorization is
\* inside its window; so task:decrypt-secret run for another account's
\* entry reads the handles but recovers no plaintext.
C6_UnauthorizedDenied ==
    last.op = "decrypt" =>
        LET r == getSecretEntry(Ledger, last.owner, last.index)
        IN /\ (/\ last.index >= 0
               /\ r.ok
               /\ \E h \in EntryHandles(r.entry[1]) :
                      ~isAuthorized(acl, h, last.caller)) =>
                  /\ last.outcome = "Denied"
                  /\ last.err = "Unauthorized"
                  /\ ~last.ok
                  /\ last.value = <<>>
           /\ last.caller # last.owner =>
                  /\ ~last.ok
                  /\ last.outcome # "Fulfilled"
                  /\ last.value = <<>>

C6_Witness ==
    /\ last.op = "decrypt" /\ last.caller # last.owner
    /\ last.outcome = "Denied" /\ last.err = "Unauthorized"
    /\ Len(entries[last.caller]) > 0
    /\ Len(entries[last.owner]) > 0

C6_OwnerFulfilled ==
    /\ last.op = "decrypt" /\ last.caller = last.owner
    /\ last.ok /\ last.outcome = "Fulfilled"

\* C8: getSecretEntry(owner, index) fails with IndexOutOfRange exactly when
\* index >= count(owner) and changes nothing; otherwise it returns what the
\* owner's (index+1)-th successful store appended.
C8_GetInRange ==
    [][last'.op = "get" =>
           /\ UNCHANGED <<entries, acl, events, stored>>
           /\ ~last'.ok <=>
                  last'.index >= getSecretCount(Ledger, last'.owner)
           /\ ~last'.ok => last'.err = "IndexOutOfRange" /\ last'.entry = <<>>
           /\ last'.ok => last'.entry =
                  <<stored[last'.owner][last'.index + 1].entry>>
      ]_vars

C8_Witness ==
    /\ last.op = "get" /\ last.ok /\ last.index = 1
    /\ last.entry # <<stored[last.owner][1].entry>>

C8_WitnessEmpty ==
    /\ last.op = "get" /\ ~last.ok /\ last.index = 0
    /\ stored[last.owner] = <<>>

\* C14: count(owner) and get(owner, index) are pure reads: a call changes
\* no entry, grant or event, and on the same ledger every caller, the
\* owner or not, gets the result the call returned.
C14_PureReads ==
    [][/\ last'.op \in {"count", "get"} =>
              UNCHANGED <<entries, acl, events, stored, now, ui>>
       /\ last'.op = "count" =>
              \A p \in Callers :
                  CallGetSecretCount(Ledger', p, last'.owner) = last'.count
       /\ last'.op = "get" =>
              \A p \in Callers :
                  LET r == CallGetSecretEntry(Ledger', p, last'.owner,
                                              last'.index)
                  IN /\ r.ok = last'.ok
                     /\ r.err = last'.err
                     /\ r.entry = last'.entry]_vars

C14_Witness ==
    /\ last.op = "get" /\ last.ok
    /\ last.caller = OtherContract
    /\ last.index = 1
    /\ last.entry = <<stored[last.owner][2].entry>>

C14_WitnessCount ==
    /\ last.op = "count" /\ last.count = 1
    /\ last.caller \in Users /\ last.caller # last.owner
    /\ entries[last.caller] = <<>>

\* C19: the grants form an idempotent, monotonic allow-list: a grant that
\* is made again leaves the list as it was, so storing the same two handles
\* again as the same owner adds no grant, and a grant once present is
\* present after every later step.
C19_GrantsIdempotentMonotonic ==
    [][/\ \A g \in acl : isAuthorized(acl', g[1], g[2])
       /\ \A g \in acl' : Allow(acl', g[1], g[2]) = acl'
       /\ \A o \in Users :
              StoredBy(o) =>
                  LET e == entries'[o][Len(entries'[o])]
                  IN /\ GrantAccess(acl', e.encryptedKey, e.encryptedSecret, o)
                            = acl'
                     /\ (\E i \in 1..Len(entries[o]) :
                             EntryHandles(entries[o][i]) = EntryHandles(e)) =>
                            acl' = acl]_vars

C19_Witness ==
    /\ last.op = "store" /\ last.ok
    /\ Len(entries[last.caller]) = 2
    /\ EntryHandles(entries[last.caller][1])
           = EntryHandles(entries[last.caller][2])
    /\ Cardinality(acl) = 4

C19_WitnessGrown ==
    /\ last.op = "decrypt" /\ last.ok
    /\ Cardinality(acl) = 8

\* the grants on the handles of o's entries
GrantsOf(list, map, o) ==
    {g \in list : \E i \in 1..Len(map[o]) : g[1] \in EntryHandles(map[o][i])}

\* C11: a successful store by owner B leaves every other owner A as it was:
\* count(A), what get(A, i) returns for every i < count(A), and the grants
\* on the handles of A's entries.
C11_OtherOwnersUntouched ==
    [][\A a \in Users, b \in Users :
           (a # b /\ StoredBy(b)) =>
               /\ getSecretCount(Ledger', a) = getSecretCount(Ledger, a)
               /\ \A i \in 0..(getSecretCount(Ledger, a) - 1) :
                      getSecretEntry(Ledger', a, i)
                          = getSecretEntry(Ledger, a, i)
               /\ GrantsOf(acl', entries, a) = GrantsOf(acl, entries, a)
               /\ GrantsOf(acl', entries', a) = GrantsOf(acl, entries, a)]_vars

C11_Witness ==
    /\ last.op = "store" /\ last.ok /\ last.caller = "bob"
    /\ Len(entries["alice"]) = 1
    /\ Len(entries["bob"]) = 1
    /\ events[1].owner = "alice"

----------------------------------------------------------------------------
(* Stores of several owners, mined in any order (SpecStores) *)

\* the ledger orders the storeSecret transactions the owners have sent: any
\* owner's transaction may be the next one mined
MinedStore(sender, a) ==
    /\ Len(events) < MaxMined
    /\ StoreSecretTx(sender, a)

NextStores ==
    \/ \E sender \in Users, a \in StoreArgs : MinedStore(sender, a)
    \/ Tick

SpecStores == Init /\ [][NextStores]_vars

\* the ledger at deployment: no entry, no grant, no event
EmptyLedger ==
    [entries |-> [u \in Users |-> <<>>], acl |-> {}, events |-> <<>>]

\* the ledger when owner o's first n successful stores are the only calls
RECURSIVE Alone(_, _)
Alone(o, n) ==
    IF n = 0 THEN EmptyLedger
    ELSE storeSecret(Alone(o, n - 1), o,
                     stored[o][n].entry.encryptedKey,
                     stored[o][n].entry.encryptedSecret,
                     stored[o][n].proof,
                     stored[o][n].entry.createdAt).st

\* the events of owner o, in emission order
EventsOf(log, o) == SelectSeq(log, LAMBDA e : e.owner = o)

\* C12: however the stores of two owners interleave, each owner's count is
\* the number of its own successful stores, its entries are what it
\* submitted in its own order at indices 0..count-1, and its entries, events
\* and grants are those of the ledger on which it alone made its stores.
C12_IndependentOwners ==
    \A o \in Users :
        LET alone == Alone(o, Len(stored[o]))
        IN /\ getSecretCount(Ledger, o) = Len(stored[o])
           /\ \A i \in 0..(Len(stored[o]) - 1) :
                  getSecretEntry(Ledger, o, i).entry = <<stored[o][i + 1].entry>>
           /\ entries[o] = alone.entries[o]
           /\ EventsOf(events, o) = alone.events
           /\ \A i \in 1..Len(alone.events) : alone.events[i].index = i - 1
           /\ GrantsOf(acl, entries, o) = alone.acl

C12_Witness ==
    /\ Len(events) = 3
    /\ events[1].owner = "alice" /\ events[2].owner = "bob"
    /\ events[3].owner = "alice"
    /\ entries["alice"][1] # entries["alice"][2]

\* C17: a successful store by an owner puts the new entry at the index
\* that was count(owner) before the call and emits exactly one SecretStored
\* event, with that owner, that index and the entry's createdAt; no other
\* step emits an event; so an owner's events carry the indices 0, 1, ...,
\* count(owner)-1, once each and in increasing order.
C17_IndexAndEvent ==
    [][/\ \A o \in Users :
              /\ StoredBy(o) =>
                     LET index == getSecretCount(Ledger, o)
                         got == getSecretEntry(Ledger', o, index)
                     IN /\ ~getSecretEntry(Ledger, o, index).ok
                        /\ got.ok
                        /\ got.entry = <<stored'[o][index + 1].entry>>
                        /\ getSecretCount(Ledger', o) = index + 1
                        /\ events' = Append(events,
                               [owner |-> o, index |-> index,
                                timestamp |-> got.entry[1].createdAt])
              /\ Len(EventsOf(events', o)) = getSecretCount(Ledger', o)
              /\ \A i \in 1..Len(EventsOf(events', o)) :
                     /\ EventsOf(events', o)[i].index = i - 1
                     /\ EventsOf(events', o)[i].timestamp =
                            entries'[o][i].createdAt
       /\ (\A o \in Users : ~StoredBy(o)) => events' = events]_vars

C17_Witness ==
    /\ Len(events) = 3
    /\ events[1] = [owner |-> "alice", index |-> 0, timestamp |-> 0]
    /\ events[2] = [owner |-> "bob", index |-> 0, timestamp |-> 0]
    /\ events[3] = [owner |-> "alice", index |-> 1, timestamp |-> 1]

\* C18: an entry is appended, and a grant created, only by a storeSecret
\* call in which the proof verified both the key and the secret for (this
\* store, the submitter), and the entry goes to the submitter's list alone;
\* so every entry present holds two handles verified for its owner, and
\* every grant is on a handle of an entry.
C18_VerifiedBeforeAppend ==
    [][/\ (entries' # entries \/ acl' # acl \/ events' # events) =>
              /\ last'.op = "store"
              /\ last'.keyOk /\ last'.secretOk
              /\ last'.ok
              /\ StoredBy(last'.caller)
              /\ \A o \in Users \ {last'.caller} : entries'[o] = entries[o]
              /\ entries'[last'.caller] =
                     Append(entries[last'.caller],
                            stored'[last'.caller]
                                [Len(stored'[last'.caller])].entry)
       /\ \A o \in Users : \A i \in 1..Len(entries'[o]) :
              LET e == entries'[o][i]
                  proof == stored'[o][i].proof
              IN /\ stored'[o][i].entry = e
                 /\ FromExternal(e.encryptedKey, proof, o, "eaddress").ok
                 /\ FromExternal(e.encryptedSecret, proof, o, "euint256").ok
       /\ \A g \in acl' :
              \E o \in Users : \E i \in 1..Len(entries'[o]) :
                  g[1] \in EntryHandles(entries'[o][i])]_vars

C18_Witness ==
    /\ last.op = "store" /\ ~last.ok
    /\ last.keyOk /\ ~last.secretOk
    /\ Len(events) = 2
    /\ Len(entries[last.caller]) = 1
    /\ Len(stored[last.caller]) = 1

\* the indices the events of owner o carry
IndicesOf(log, o) ==
    {EventsOf(log, o)[i].index : i \in 1..Len(EventsOf(log, o))}

\* C20: the stores one owner has in flight together are applied one after
\* the other, in the order the ledger mines them: each one that succeeds
\* takes the next index, so k of them add exactly k to count(owner), their
\* indices are k consecutive numbers without gap or duplicate, and every
\* entry is kept as submitted, none lost or overwritten.
C20_SameOwnerLinearized ==
    [][\A o \in Users :
           /\ StoredBy(o) =>
                  LET n == getSecretCount(Ledger, o)
                  IN /\ getSecretCount(Ledger', o) = n + 1
                     /\ IndicesOf(events', o) = IndicesOf(events, o) \cup {n}
                     /\ n \notin IndicesOf(events, o)
                     /\ entries'[o][n + 1] = stored'[o][n + 1].entry
                     /\ \A i \in 1..n : entries'[o][i] = entries[o][i]
           /\ getSecretCount(Ledger', o) = Len(stored'[o])
           /\ IndicesOf(events', o) = 0..(Len(stored'[o]) - 1)
           /\ Len(EventsOf(events', o)) = Len(stored'[o])
           /\ entries'[o] = [i \in 1..Len(stored'[o]) |-> stored'[o][i].entry]
      ]_vars

\* three stores of one owner mined in one block, two of them of the same
\* ciphertexts
C20_Witness ==
    \E o \in Users :
        /\ Len(entries[o]) = 3
        /\ Len(events) = 3
        /\ \A i \in 1..3 : entries[o][i].createdAt = 0
        /\ entries[o][1] = entries[o][3]
        /\ entries[o][1] # entries[o][2]

\* C26: for every owner createdAt does not decrease along the indices (for
\* i < j < count, createdAt of entry i <= createdAt of entry j), and the
\* createdAt of entry i is the timestamp of the owner's SecretStored event
\* with index i.
C26_CreatedAtOrdered ==
    \A o \in Users :
        /\ \A i, j \in DOMAIN entries[o] :
               i < j => entries[o][i].createdAt <= entries[o][j].createdAt
        /\ Len(EventsOf(events, o)) = Len(entries[o])
        /\ \A i \in DOMAIN entries[o] :
               /\ EventsOf(events, o)[i].index = i - 1
               /\ EventsOf(events, o)[i].timestamp = entries[o][i].createdAt
               /\ entries[o][i].createdAt <= now

\* an owner's entries from two blocks, two of them from the same block,
\* with another owner's store in between
C26_Witness ==
    \E o \in Users :
        /\ Len(entries[o]) = 2
        /\ Len(events) = 3
        /\ events[2].owner # o
        /\ entries[o][1].createdAt < entries[o][2].createdAt
        /\ events[2].timestamp = entries[o][2].createdAt

----------------------------------------------------------------------------
(* The commands (SpecCmd) *)

\* task:store-secret run by signer with --key and --secret
CmdStoreSecret(signer, key, secret) ==
    /\ Len(events) < MaxCmdStores
    /\ LET r == TaskStoreSecret(Ledger, signer, key, secret, 1, now)
       IN /\ Commit(r.st)
          /\ stored' = IF r.ok
                       THEN [stored EXCEPT ![signer] =
                               Append(@, [entry |-> r.st.entries[signer]
                                              [Len(r.st.entries[signer])],
                                          proof |-> createEncryptedInput(
                                              Vault, signer,
                                              getAddress(key).val,
                                              encodeSecretToUint256(secret).val,
                                              1).inputProof,
                                          input |-> <<getAddress(key).val,
                                                      secret>>])]
                       ELSE stored
          /\ last' = [NoCall EXCEPT
                        !.op = "cmdstore", !.caller = signer,
                        !.owner = signer, !.ok = r.ok, !.err = r.err,
                        !.net = r.net, !.input = <<key, secret>>]
    /\ UNCHANGED <<now, ui>>

NextCmd ==
    \/ \E signer \in Users, key \in CmdKeys, secret \in CmdSecrets :
           CmdStoreSecret(signer, key, secret)
    \/ \E signer \in Users, owner \in Users, index \in -1..MaxCmdStores :
           DecryptSecret(signer, owner, index)

SpecCmd == Init /\ [][NextCmd]_vars

\* C9: a secret text S of 1 to 31 bytes stored with address A by an owner
\* is what that owner's decrypt of that index gives back, (A, S), whatever
\* else was stored in between.
C9_RoundTrip ==
    (/\ last.op = "decrypt"
     /\ last.caller = last.owner
     /\ last.index >= 0
     /\ last.index < Len(stored[last.owner])
     /\ stored[last.owner][last.index + 1].input # <<>>) =>
        /\ last.ok
        /\ last.value = stored[last.owner][last.index + 1].input

\* the round trip of the texts that do not end in U+0000
C9_RoundTripNoTrailingNul ==
    (/\ last.op = "decrypt"
     /\ last.caller = last.owner
     /\ last.index >= 0
     /\ last.index < Len(stored[last.owner])
     /\ stored[last.owner][last.index + 1].input # <<>>
     /\ LET text == stored[last.owner][last.index + 1].input[2]
        IN text[Len(text)] # 0) =>
        /\ last.ok
        /\ last.value = stored[last.owner][last.index + 1].input

\* C10: a store command given a secret of 0 bytes or of more than 31 bytes
\* is rejected with InvalidInput before any call leaves the client, and a
\* secret of exactly 31 bytes is accepted.
C10_RejectedBeforeNetwork ==
    last.op = "cmdstore" =>
        LET length == getUtf8ByteLength(last.input[2])
        IN /\ (length = 0 \/ length > MAX_SECRET_BYTES) =>
                  /\ ~last.ok
                  /\ last.err = "InvalidInput"
                  /\ last.net = <<>>
           /\ (length = MAX_SECRET_BYTES /\ getAddress(last.input[1]).ok) =>
                  last.ok

\* what the task does hold to: the rejection precedes the encryption request
\* and the transaction
C10_RejectedBeforeEncryption ==
    last.op = "cmdstore" =>
        LET length == getUtf8ByteLength(last.input[2])
        IN /\ (length = 0 \/ length > MAX_SECRET_BYTES) =>
                  /\ ~last.ok
                  /\ last.err = "InvalidInput"
                  /\ last.net = TaskStorePrelude
           /\ (length = MAX_SECRET_BYTES /\ getAddress(last.input[1]).ok) =>
                  last.ok

----------------------------------------------------------------------------
(* ui/src/components/SecretApp.tsx handleDecryptEntry (SpecSession) *)

ClockSkews == {0, 1}    \* how far the client's clock is ahead of the service's

\* the ledger SpecSession starts from: alice has stored two entries and bob
\* one, with the store command
SessionLedger ==
    LET empty == [entries |-> [u \in Users |-> <<>>], acl |-> {},
                  events |-> <<>>]
        s1 == TaskStoreSecret(empty, "alice", AddrA, TextA, 1, 0).st
        s2 == TaskStoreSecret(s1, "bob", AddrA, Text31, 1, 0).st
    IN TaskStoreSecret(s2, "alice", AddrB, TextMulti, 1, 0).st

InitSession ==
    /\ entries = SessionLedger.entries
    /\ acl = SessionLedger.acl
    /\ events = SessionLedger.events
    /\ now = 0
    /\ stored = [u \in Users |->
                    [i \in 1..Len(SessionLedger.entries[u]) |->
                        [entry |-> SessionLedger.entries[u][i],
                         proof |-> [ctx |-> Vault, user |-> u,
                                    handles |->
                                        <<SessionLedger.entries[u][i].encryptedKey,
                                          SessionLedger.entries[u][i].encryptedSecret>>],
                         input |-> <<>>]]]
    /\ last = NoCall
    /\ ui = UiInit

Terminal == {"Fulfilled", "Denied", "Expired"}

\* the window is a day longer
BuildAuthorizationLonger(publicKey, clock) ==
    [publicKey |-> publicKey, contractAddresses |-> {Vault},
     startTimeStamp |-> clock, durationDays |-> DurationDays + 1]

\* the window starts when the page was loaded
BuildAuthorizationStale(publicKey, clock) ==
    [publicKey |-> publicKey, contractAddresses |-> {Vault},
     startTimeStamp |-> 0, durationDays |-> DurationDays]

\* the authorization handleDecryptEntry builds (lines 213-222)
BuildAuthorization(publicKey, clock) ==
    [publicKey |-> publicKey, contractAddresses |-> {Vault},
     startTimeStamp |-> clock, durationDays |-> DurationDays]

\* the handles are said to come from another contract
DecryptBatchOtherOrigin(entry) ==
    <<[handle |-> entry.encryptedKey, contractAddress |-> OtherContract],
      [handle |-> entry.encryptedSecret, contractAddress |-> OtherContract]>>

\* the {handle, contractAddress} pairs of the request (lines 233-236)
DecryptBatch(entry) ==
    <<[handle |-> entry.encryptedKey, contractAddress |-> Vault],
      [handle |-> entry.encryptedSecret, contractAddress |-> Vault]>>

\* the arguments of instance.userDecrypt (lines 232-244) in a handler whose
\* locals are those of session s: the batch, the key pair, the signature,
\* and the contractAddresses, startTimeStamp and durationDays that went
\* into createEIP712
DecryptRequest(s) ==
    [batch |-> DecryptBatch(s.entry[1]),
     privateKey |-> s.privateKey,
     publicKey |-> s.keypair,
     signature |-> s.signature[1],
     contractAddresses |-> s.auth[1].contractAddresses,
     userAddress |-> s.address,
     startTimeStamp |-> s.auth[1].startTimeStamp,
     durationDays |-> s.auth[1].durationDays]

\* setDecryptedEntries((previous) => ({...previous, [index]: value}))
SetDecryptedEntry(previous, index, value) ==
    [i \in (DOMAIN previous) \cup {index} |->
        IF i = index THEN value ELSE previous[i]]

\* the answer's plaintexts keyed by handle, as userDecrypt returns them
ResponseMap(batch, vals) ==
    [h \in {batch[i].handle : i \in DOMAIN vals} |->
        vals[CHOOSE i \in DOMAIN vals : batch[i].handle = h]]

\* decrypted[handle] (lines 246-247): <<value>>, or <<>> when undefined
Lookup(response, handle) ==
    IF handle \in DOMAIN response THEN <<response[handle]>> ELSE <<>>

\* a failed decryption is recorded as an entry without plaintext
HandleDecryptedLenient(previous, entry, index, decrypted) ==
    [ok |-> TRUE, err |-> decrypted.err, value |-> <<<<>>, <<>>>>,
     decryptedEntries |-> SetDecryptedEntry(previous, index, <<<<>>, <<>>>>)]

\* lines 246-265, what the handler does with userDecrypt's answer (decrypted
\* is [outcome, err, vals]; userDecrypt throws unless it is Fulfilled):
\* [ok, err, value, decryptedEntries]
HandleDecrypted(previous, entry, index, decrypted) ==
    LET fail(e) == [ok |-> FALSE, err |-> e, value |-> <<>>,
                    decryptedEntries |-> previous]
    IN IF decrypted.outcome # "Fulfilled" THEN fail(decrypted.err)
       ELSE
       LET decryptedKeyValue == Lookup(decrypted.vals, entry.encryptedKey)
           decryptedSecretValue == Lookup(decrypted.vals, entry.encryptedSecret)
       IN IF decryptedKeyValue = <<>> \/ decryptedSecretValue = <<>>
          THEN fail("MissingValues")
          ELSE
          LET decryptedAddress == decodeAddressValue(decryptedKeyValue[1])
              decryptedSecret == decodeSecretValue(decryptedSecretValue[1])
          IN IF ~decryptedAddress.ok \/ ~decryptedSecret.ok
             THEN fail("DecodeError")
             ELSE [ok |-> TRUE, err |-> "",
                   value |-> <<decryptedAddress.val, decryptedSecret.val>>,
                   decryptedEntries |->
                       SetDecryptedEntry(previous, index,
                                         <<decryptedAddress.val,
                                           decryptedSecret.val>>)]

SetSession(k, s) == [ui EXCEPT !.sessions[k] = s]

\* the wallet connects or switches to account u
Connect(u) ==
    /\ ui.address # u
    /\ ui' = [ui EXCEPT !.address = u]
    /\ UNCHANGED <<entries, acl, events, now, stored, last>>

\* useZamaInstance has loaded the relayer instance
InstanceLoaded ==
    /\ ~ui.instance
    /\ ui' = [ui EXCEPT !.instance = TRUE]
    /\ UNCHANGED <<entries, acl, events, now, stored, last>>

\* the "Decrypt entry" button of entry index is disabled (line 403)
DecryptDisabled(u, index) ==
    ~u.instance \/ u.address = "" \/ u.decryptingIndex = index

\* "Decrypt entry" is clicked on the connected account's entry index
\* (lines 196-212): Idle -> KeypairGenerated.  entry, address, privateKey,
\* auth and signature are the handler's locals; window and signedInWindow
\* record where the clock stood against the seven days from the build.
HandleDecryptEntry(index) ==
    /\ ~DecryptDisabled(ui, index)
    /\ LET r == getSecretEntry(Ledger, ui.address, index)
           k == Len(ui.sessions) + 1
       IN /\ r.ok
          /\ ui' = [ui EXCEPT
                      !.decryptingIndex = index,
                      !.formError = "",
                      !.sessions = Append(@,
                          [pc |-> "KeypairGenerated", index |-> index,
                           entry |-> r.entry, address |-> ui.address,
                           keypair |-> k, privateKey |-> k,
                           auth |-> <<>>, signature |-> <<>>,
                           builtClock |-> -1, signedInWindow |-> FALSE,
                           window |-> "", err |-> "", value |-> <<>>])]
    /\ UNCHANGED <<entries, acl, events, now, stored, last>>

StartDecrypt(index) ==
    /\ Len(ui.sessions) < MaxSessions
    /\ HandleDecryptEntry(index)

\* the request is sent without waiting for the signature
ProceedUnsigned(pc) ==
    IF pc = "KeypairGenerated" THEN "AuthorizationBuilt" ELSE "Submitted"

\* the handler's statements in program order: the state a session is in
\* once the statement that follows state pc has completed (lines 212-244)
Proceed(pc) ==
    IF pc = "KeypairGenerated" THEN "AuthorizationBuilt"
    ELSE IF pc = "AuthorizationBuilt" THEN "Signed"
    ELSE "Submitted"

\* lines 213-222: KeypairGenerated -> AuthorizationBuilt
BuildAuth(k, skew) ==
    /\ k \in DOMAIN ui.sessions
    /\ ui.sessions[k].pc = "KeypairGenerated"
    /\ ui' = SetSession(k, [ui.sessions[k] EXCEPT
                              !.pc = Proceed(@),
                              !.builtClock = now + skew,
                              !.auth = <<BuildAuthorization(
                                            ui.sessions[k].keypair,
                                            now + skew)>>])
    /\ UNCHANGED <<entries, acl, events, now, stored, last>>

\* where time t lies against the seven days that begin at clock
Window(clock, t) ==
    IF t < clock THEN "early"
    ELSE IF t >= clock + DurationDays THEN "late"
    ELSE "inside"

\* lines 224-230, the wallet signs: AuthorizationBuilt -> Signed
WalletSign(k) ==
    /\ k \in DOMAIN ui.sessions
    /\ ui.sessions[k].pc = "AuthorizationBuilt"
    /\ ui' = SetSession(k, [ui.sessions[k] EXCEPT
                              !.pc = Proceed(@),
                              !.signedInWindow =
                                  Window(ui.sessions[k].builtClock, now)
                                      = "inside",
                              !.signature =
                                  <<[signer |-> ui.sessions[k].address,
                                     message |-> ui.sessions[k].auth[1]]>>])
    /\ UNCHANGED <<entries, acl, events, now, stored, last>>

\* the key pair outlives the handler
ReturnedKeepsKey(s) ==
    [s EXCEPT !.entry = <<>>, !.auth = <<>>, !.signature = <<>>,
              !.builtClock = -1]

\* the handler has returned: its locals are gone
Returned(s) ==
    [s EXCEPT !.privateKey = 0, !.entry = <<>>, !.auth = <<>>,
              !.signature = <<>>, !.builtClock = -1]

\* the in-progress marker is left as it is
FinallyKeep(u) == u

\* finally { setDecryptingIndex(null) } (lines 266-268)
Finally(u) == [u EXCEPT !.decryptingIndex = -1]

\* lines 224-230 and 263-268, the wallet declines: signTypedData throws
WalletDecline(k) ==
    /\ k \in DOMAIN ui.sessions
    /\ ui.sessions[k].pc = "AuthorizationBuilt"
    /\ ui' = Finally([SetSession(k, [Returned(ui.sessions[k]) EXCEPT
                                       !.pc = "Cancelled",
                                       !.err = "SigningDeclined"])
                        EXCEPT !.formError = "Failed to decrypt entry."])
    /\ UNCHANGED <<entries, acl, events, now, stored, last>>

\* lines 232-244, the request leaves the client: Signed -> Submitted
Submit(k) ==
    /\ k \in DOMAIN ui.sessions
    /\ ui.sessions[k].pc = "Signed"
    /\ ui' = SetSession(k, [ui.sessions[k] EXCEPT !.pc = Proceed(@)])
    /\ UNCHANGED <<entries, acl, events, now, stored, last>>

\* the service evaluates the request now and the client handles the answer
\* (lines 246-268): Submitted -> Fulfilled, Denied or Expired
ServiceRespond(k) ==
    /\ k \in DOMAIN ui.sessions
    /\ ui.sessions[k].pc = "Submitted"
    /\ LET s == ui.sessions[k]
           request == DecryptRequest(s)
           batch == request.batch
           decrypted == userDecrypt(acl, batch, request.userAddress,
                                    [contractAddresses |->
                                         request.contractAddresses,
                                     startTimeStamp |-> request.startTimeStamp,
                                     durationDays |-> request.durationDays],
                                    now)
           handled == HandleDecrypted(ui.decryptedEntries, s.entry[1], s.index,
                                      [decrypted EXCEPT !.vals =
                                          ResponseMap(batch, @)])
       IN ui' = Finally([SetSession(k, [Returned(s) EXCEPT
                                          !.pc = decrypted.outcome,
                                          !.window = Window(s.builtClock, now),
                                          !.err = handled.err,
                                          !.value = handled.value])
                           EXCEPT !.decryptedEntries = handled.decryptedEntries,
                                  !.formError =
                                      IF handled.ok THEN @
                                      ELSE "Failed to decrypt entry."])
    /\ UNCHANGED <<entries, acl, events, now, stored, last>>

\* time passes
ClockTick ==
    /\ now < MaxClock
    /\ now' = now + 1
    /\ UNCHANGED <<entries, acl, events, stored, last, ui>>

NextSession ==
    \/ \E u \in Users : Connect(u)
    \/ InstanceLoaded
    \/ \E index \in 0..1 : StartDecrypt(index)
    \/ \E k \in 1..MaxSessions, skew \in ClockSkews : BuildAuth(k, skew)
    \/ \E k \in 1..MaxSessions : WalletSign(k)
    \/ \E k \in 1..MaxSessions : WalletDecline(k)
    \/ \E k \in 1..MaxSessions : Submit(k)
    \/ \E k \in 1..MaxSessions : ServiceRespond(k)
    \/ ClockTick

SpecSession == InitSession /\ [][NextSession]_vars

\* the signer of session s holds a grant on both handles of its entry
HoldsGrants(s) ==
    \A h \in EntryHandles(entries[s.address][s.index + 1]) :
        isAuthorized(acl, h, s.address)

\* C7: a request the service evaluates outside the authorization's window
\* (at or after the build time plus seven days, or before the start time)
\* ends Expired with AuthorizationExpired and never Fulfilled, although the
\* signer holds a grant on every requested handle and signed inside the
\* window.
C7_ExpiredRejected ==
    \A k \in DOMAIN ui.sessions :
        LET s == ui.sessions[k]
        IN s.window \in {"early", "late"} =>
               /\ s.pc # "Fulfilled"
               /\ s.value = <<>>
               /\ HoldsGrants(s) =>
                      s.pc = "Expired" /\ s.err = "AuthorizationExpired"

C7_Witness ==
    \E k \in DOMAIN ui.sessions :
        LET s == ui.sessions[k]
        IN /\ s.pc = "Expired"
           /\ s.signedInWindow
           /\ s.window = "late"
           /\ HoldsGrants(s)

C7_WitnessEarly ==
    \E k \in DOMAIN ui.sessions :
        ui.sessions[k].pc = "Expired" /\ ui.sessions[k].window = "early"

C7_WitnessFulfilled ==
    \E k \in DOMAIN ui.sessions :
        ui.sessions[k].pc = "Fulfilled" /\ now = DurationDays - 1

\* C25: every authorization the client builds starts at the client's clock
\* at build time and lasts the fixed seven days; the request the client
\* submits carries the entry's two handles with origin contracts that are
\* all among the authorization's target contracts, and the public key,
\* target contracts, start time, duration and user address it carries are
\* exactly those of the signed message; so no request of this client is
\* denied for a target-contract mismatch (a denial means a missing grant).
C25_AuthorizationFields ==
    [][\A k \in DOMAIN ui.sessions :
           LET s == ui.sessions[k]
               t == ui'.sessions[k]
           IN /\ (s.pc = "KeypairGenerated" /\ t.pc # s.pc) =>
                     /\ t.auth[1].startTimeStamp - now \in ClockSkews
                     /\ t.auth[1].startTimeStamp = t.builtClock
                     /\ t.auth[1].durationDays = DurationDays
                     /\ t.auth[1].publicKey = s.keypair
              /\ (s.pc = "Signed" /\ t.pc = "Submitted") =>
                     LET r == DecryptRequest(t)
                         signed == s.signature[1]
                     IN /\ {r.batch[i].handle : i \in DOMAIN r.batch}
                               = EntryHandles(
                                     entries[s.address][s.index + 1])
                        /\ \A i \in DOMAIN r.batch :
                               r.batch[i].contractAddress
                                   \in signed.message.contractAddresses
                        /\ r.signature = signed
                        /\ r.userAddress = signed.signer
                        /\ r.publicKey = signed.message.publicKey
                        /\ r.contractAddresses
                               = signed.message.contractAddresses
                        /\ r.startTimeStamp = signed.message.startTimeStamp
                        /\ r.durationDays = signed.message.durationDays
                        /\ r.durationDays = DurationDays
                        /\ r.startTimeStamp = s.builtClock
              /\ (s.pc = "Submitted" /\ t.pc # s.pc) =>
                     /\ t.err = "Unauthorized" => ~HoldsGrants(s)
                     /\ t.pc = "Denied" => ~HoldsGrants(s)
                     /\ HoldsGrants(s) => t.pc \in {"Fulfilled", "Expired"}]_vars

\* a request is with the service whose authorization was built later than
\* the page was loaded, on a client clock ahead of the service's
C25_Witness ==
    \E k \in DOMAIN ui.sessions :
        /\ ui.sessions[k].pc = "Submitted"
        /\ ui.sessions[k].builtClock > now
        /\ now > 0
        /\ DecryptRequest(ui.sessions[k]).startTimeStamp
               = ui.sessions[k].builtClock

----------------------------------------------------------------------------
(* Several decryption sessions of one client (SpecRetry) *)

\* "Decrypt entry" is clicked again, while or after other sessions run
DecryptAgain(index) ==
    /\ Len(ui.sessions) < MaxStarted
    /\ HandleDecryptEntry(index)

NextRetry ==
    \/ \E u \in Users : Connect(u)
    \/ InstanceLoaded
    \/ \E index \in 0..1 : DecryptAgain(index)
    \/ \E k \in 1..MaxStarted, skew \in ClockSkews : BuildAuth(k, skew)
    \/ \E k \in 1..MaxStarted : WalletSign(k)
    \/ \E k \in 1..MaxStarted : WalletDecline(k)
    \/ \E k \in 1..MaxStarted : Submit(k)
    \/ \E k \in 1..MaxStarted : ServiceRespond(k)

SpecRetry == InitSession /\ [][NextRetry]_vars

\* session k's wallet signing step ends in this step without a signature
Declined(k) ==
    /\ k \in DOMAIN ui.sessions
    /\ ui.sessions[k].pc = "AuthorizationBuilt"
    /\ ui'.sessions[k].pc \notin {"AuthorizationBuilt", "Signed"}

\* C15: when the wallet declines the signature the session ends cancelled
\* and stays so, without ever being submitted: the ledger, the grants and
\* the decrypted entries are as before, the session's key pair is dropped,
\* and the entry's "Decrypt" is enabled again for the same account.
C15_DeclinedHasNoEffect ==
    [][\A k \in 1..MaxStarted :
           /\ Declined(k) =>
                  /\ ui'.sessions[k].pc = "Cancelled"
                  /\ ui'.sessions[k].err = "SigningDeclined"
                  /\ ui'.sessions[k].value = <<>>
                  /\ ui'.sessions[k].signature = <<>>
                  /\ UNCHANGED <<entries, acl, events, stored>>
                  /\ ui'.decryptedEntries = ui.decryptedEntries
                  /\ ui'.sessions[k].privateKey = 0
                  /\ \A j \in DOMAIN ui.sessions :
                         j # k => ui'.sessions[j] = ui.sessions[j]
                  /\ ~DecryptDisabled(ui', ui.sessions[k].index)
           /\ (k \in DOMAIN ui.sessions /\ ui.sessions[k].pc = "Cancelled") =>
                  ui'.sessions[k] = ui.sessions[k]]_vars

\* the steps a session may take
SessionOrder ==
    {<<"KeypairGenerated", "AuthorizationBuilt">>,
     <<"AuthorizationBuilt", "Signed">>,
     <<"AuthorizationBuilt", "Cancelled">>,
     <<"Signed", "Submitted">>}
    \cup {<<"Submitted", t>> : t \in Terminal}

\* C16: a session starts in KeypairGenerated and moves only along
\* KeypairGenerated -> AuthorizationBuilt -> Signed -> Submitted -> one of
\* Fulfilled, Denied, Expired (or ends at the declined signature): it skips
\* and revisits no state, it is submitted only with the signature of the
\* authorization it built, and once in a terminal state it never changes.
C16_SessionOrder ==
    [][/\ DOMAIN ui.sessions \subseteq DOMAIN ui'.sessions
       /\ \A k \in DOMAIN ui'.sessions :
              LET t == ui'.sessions[k]
              IN IF k \notin DOMAIN ui.sessions
                 THEN /\ t.pc = "KeypairGenerated"
                      /\ t.auth = <<>> /\ t.signature = <<>>
                 ELSE LET s == ui.sessions[k]
                      IN /\ t.pc # s.pc => <<s.pc, t.pc>> \in SessionOrder
                         /\ t.pc = "AuthorizationBuilt" =>
                                /\ t.auth # <<>>
                                /\ t.auth[1].publicKey = t.keypair
                                /\ t.signature = <<>>
                         /\ t.pc \in {"Signed", "Submitted"} =>
                                /\ t.signature # <<>>
                                /\ t.signature[1].message = t.auth[1]
                                /\ t.signature[1].signer = t.address
                                /\ s.pc # "KeypairGenerated" =>
                                       t.auth = s.auth
                         /\ s.pc \in Terminal \cup {"Cancelled"} => t = s]_vars

C16_Witness ==
    /\ Len(ui.sessions) = 2
    /\ ui.sessions[1].pc = "Expired"
    /\ ui.sessions[2].pc = "Fulfilled"
    /\ ui.sessions[1].index = ui.sessions[2].index

\* a session declined and a later session for the same entry fulfilled
C15_Witness ==
    /\ Len(ui.sessions) = 2
    /\ ui.sessions[1].pc = "Cancelled"
    /\ ui.sessions[2].pc = "Fulfilled"
    /\ ui.sessions[2].index = ui.sessions[1].index
    /\ ui.sessions[2].address = ui.sessions[1].address
    /\ ui.sessions[2].keypair # ui.sessions[1].keypair

\* a session declined while another one had already recorded its entry
C15_WitnessKept ==
    /\ Len(ui.sessions) = 2
    /\ ui.sessions[2].pc = "Cancelled"
    /\ ui.sessions[1].pc = "Fulfilled"
    /\ DOMAIN ui.decryptedEntries = {ui.sessions[1].index}

\* the sessions that have ended
Ended == Terminal \cup {"Cancelled"}

\* the private keys held by the handlers still running
HeldKeys ==
    {ui.sessions[k].privateKey :
        k \in {j \in DOMAIN ui.sessions : ui.sessions[j].pc \notin Ended}}

\* C21: every session has a key pair of its own (no two sessions, one after
\* the other or side by side, for the same entry or for different ones, have
\* the same key pair, and the authorization a session builds carries its own
\* public key), and once a session is Fulfilled, Denied, Expired or
\* cancelled the client no longer holds its private key: the handler's local
\* is gone and no running handler has that key.
C21_OwnKeypair ==
    \A k \in DOMAIN ui.sessions :
        LET s == ui.sessions[k]
        IN /\ \A j \in DOMAIN ui.sessions :
                  j # k => ui.sessions[j].keypair # s.keypair
           /\ s.auth # <<>> => s.auth[1].publicKey = s.keypair
           /\ s.pc \notin Ended => s.privateKey = s.keypair
           /\ s.pc \in Ended =>
                  /\ s.privateKey = 0
                  /\ s.keypair \notin HeldKeys

\* two sessions side by side, each holding its own key
C21_Witness ==
    /\ Len(ui.sessions) = 2
    /\ ui.sessions[1].pc = "Signed"
    /\ ui.sessions[2].pc = "AuthorizationBuilt"
    /\ ui.sessions[1].index # ui.sessions[2].index

\* a session has ended and a later one for the same entry is running
C21_WitnessEnded ==
    /\ Len(ui.sessions) = 2
    /\ ui.sessions[1].pc \in Terminal
    /\ ui.sessions[2].pc = "Submitted"
    /\ ui.sessions[1].index = ui.sessions[2].index

\* session j is started in this step
Started(j) == j \in DOMAIN ui'.sessions /\ j \notin DOMAIN ui.sessions

\* session j ends in this step
Completed(j) ==
    /\ j \in DOMAIN ui.sessions
    /\ ui.sessions[j].pc \notin Ended
    /\ ui'.sessions[j].pc \in Ended

\* the answer session j gets in this step and what it records are those of
\* the same request made by a client that ran no other session
ResultAsAlone(j) ==
    (Completed(j) /\ ui.sessions[j].pc = "Submitted") =>
        LET s == ui.sessions[j]
            batch == DecryptBatch(s.entry[1])
            alone == userDecrypt(acl, batch, s.address,
                                 BuildAuthorization(s.keypair, s.builtClock),
                                 now)
            handled == HandleDecrypted(<<>>, s.entry[1], s.index,
                                       [alone EXCEPT !.vals =
                                           ResponseMap(batch, @)])
        IN /\ ui'.sessions[j].pc = alone.outcome
           /\ ui'.sessions[j].value = handled.value
           /\ handled.ok =>
                  /\ s.index \in DOMAIN ui'.decryptedEntries
                  /\ ui'.decryptedEntries[s.index] = handled.value
           /\ ~handled.ok =>
                  DOMAIN ui'.decryptedEntries = DOMAIN ui.decryptedEntries

\* the step of session j leaves the other sessions and the plaintexts
\* recorded for the other entries as they are
ResultsKept(j) ==
    /\ \A i \in DOMAIN ui.decryptedEntries :
           i # ui'.sessions[j].index =>
               /\ i \in DOMAIN ui'.decryptedEntries
               /\ ui'.decryptedEntries[i] = ui.decryptedEntries[i]
    /\ \A k \in DOMAIN ui.sessions :
           k # j => ui'.sessions[k] = ui.sessions[k]

\* the step of session j leaves the in-progress marker and the error message
\* of every session for another entry as they are
MarkerKept(j) ==
    \A k \in DOMAIN ui.sessions :
        (k # j /\ ui.sessions[k].index # ui'.sessions[j].index) =>
            /\ ui.sessions[k].pc \notin Ended =>
                   (ui'.decryptingIndex = ui.sessions[k].index)
                       = (ui.decryptingIndex = ui.sessions[k].index)
            /\ (ui.sessions[k].pc \in Ended /\ ui.sessions[k].err # ""
                    /\ ui.formError # "") =>
                   ui'.formError = ui.formError

\* C22: sessions share no mutable state.  When a session starts or ends
\* while sessions for other entries exist, its outcome and the plaintext
\* recorded for its entry are those of the session run alone, the other
\* sessions and the plaintexts of the other entries are untouched, and the
\* in-progress marker (decryptingIndex) and the error message of a session
\* for another entry are not altered.
C22_SharedNothing ==
    [][\A j \in DOMAIN ui'.sessions :
           (Started(j) \/ Completed(j)) =>
               ResultAsAlone(j) /\ ResultsKept(j) /\ MarkerKept(j)]_vars

\* the part of C22 about outcomes and recorded plaintexts
C22_ResultsIndependent ==
    [][\A j \in DOMAIN ui'.sessions :
           (Started(j) \/ Completed(j)) =>
               ResultAsAlone(j) /\ ResultsKept(j)]_vars

\* two interleaved sessions for different entries have both been fulfilled
C22_BothRecorded ==
    /\ Len(ui.sessions) = 2
    /\ ui.sessions[1].pc = "Fulfilled"
    /\ ui.sessions[2].pc = "Fulfilled"
    /\ ui.sessions[1].index # ui.sessions[2].index
    /\ DOMAIN ui.decryptedEntries = {0, 1}

\* the entry cards rendered (lines 79-125, 356): the indices of the
\* connected account's entries
ListedEntries(u) ==
    IF u.address = "" THEN {}
    ELSE 0..(Len(entries[u.address]) - 1)

\* const decrypted = decryptedEntries[entry.index] (lines 357, 386-397):
\* <<plaintext>> when the card of entry index shows one, else <<>>
ShownDecrypted(u, index) ==
    IF index \in DOMAIN u.decryptedEntries
    THEN <<u.decryptedEntries[index]>> ELSE <<>>

\* C24: the plaintext shown on the card of entry i of the connected account
\* is the result of a Fulfilled session of that account for its entry i,
\* also after the connected account has changed.
C24_ShownIsOwnEntry ==
    \A i \in ListedEntries(ui) :
        ShownDecrypted(ui, i) # <<>> =>
            \E k \in DOMAIN ui.sessions :
                /\ ui.sessions[k].pc = "Fulfilled"
                /\ ui.sessions[k].address = ui.address
                /\ ui.sessions[k].index = i
                /\ ui.sessions[k].value = ShownDecrypted(ui, i)[1]

\* what does hold: a plaintext in the cache under index i is the result of a
\* Fulfilled session for an entry with index i of some account
C24_CachedFromSession ==
    \A i \in DOMAIN ui.decryptedEntries :
        \E k \in DOMAIN ui.sessions :
            /\ ui.sessions[k].pc = "Fulfilled"
            /\ ui.sessions[k].index = i
            /\ ui.sessions[k].value = ui.decryptedEntries[i]

\* alice's plaintext is on the card of bob's entry
C24_ShownForOther ==
    /\ ui.address = "bob"
    /\ ShownDecrypted(ui, 0) # <<>>
    /\ \E k \in DOMAIN ui.sessions :
           /\ ui.sessions[k].address = "alice"
           /\ ui.sessions[k].value = ShownDecrypted(ui, 0)[1]
    /\ \A k \in DOMAIN ui.sessions : ui.sessions[k].address = "alice"

----------------------------------------------------------------------------
(* A session restarted after the one before has ended (SpecRestart) *)

\* "Decrypt entry" is clicked for the first time, or again once the session
\* before has ended Expired
Restart(index) ==
    /\ Len(ui.sessions) < MaxStarted
    /\ ui.sessions # <<>> => ui.sessions[Len(ui.sessions)].pc = "Expired"
    /\ HandleDecryptEntry(index)

NextRestart ==
    \/ \E u \in Users : Connect(u)
    \/ InstanceLoaded
    \/ \E index \in 0..1 : Restart(index)
    \/ \E k \in 1..MaxStarted, skew \in ClockSkews : BuildAuth(k, skew)
    \/ \E k \in 1..MaxStarted : WalletSign(k)
    \/ \E k \in 1..MaxStarted : WalletDecline(k)
    \/ \E k \in 1..MaxStarted : Submit(k)
    \/ \E k \in 1..MaxStarted : ServiceRespond(k)
    \/ ClockTick

SpecRestart == InitSession /\ [][NextRestart]_vars

\* session k was started after a session that ended Expired
AfterExpired(sessions, k) ==
    \E j \in 1..(k - 1) : sessions[j].pc = "Expired"

\* the steps of a session started after one that ended Expired: it has a
\* key pair no earlier session had, builds an authorization of its own whose
\* start time is the client's clock at the restart, submits the signature of
\* that authorization and nothing of the expired session, and when the
\* service evaluates its request inside the new window and the signer holds
\* the grants, it ends Fulfilled with the plaintext recorded
RestartSteps ==
    [][\A k \in DOMAIN ui.sessions :
           AfterExpired(ui.sessions, k) =>
               LET s == ui.sessions[k]
                   t == ui'.sessions[k]
               IN /\ \A j \in 1..(k - 1) :
                         ui.sessions[j].keypair # s.keypair
                  /\ (s.pc = "KeypairGenerated" /\ t.pc # s.pc) =>
                         /\ t.pc = "AuthorizationBuilt"
                         /\ t.auth[1].publicKey = s.keypair
                         /\ t.auth[1].startTimeStamp - now \in ClockSkews
                         /\ t.auth[1].durationDays = DurationDays
                  /\ (s.pc = "Signed" /\ t.pc # s.pc) =>
                         /\ t.pc = "Submitted"
                         /\ t.signature[1].message = s.auth[1]
                         /\ t.signature[1].message.publicKey = s.keypair
                         /\ t.signature[1].signer = s.address
                  /\ (s.pc = "Submitted" /\ t.pc # s.pc
                          /\ HoldsGrants(s)
                          /\ Window(s.signature[1].message.startTimeStamp, now)
                                 = "inside") =>
                         /\ t.pc = "Fulfilled"
                         /\ t.value # <<>>
                         /\ s.index \in DOMAIN ui'.decryptedEntries
                         /\ ui'.decryptedEntries[s.index] = t.value]_vars

\* the service answers a request it has received
Answered == \E k \in 1..MaxStarted : ServiceRespond(k)

\* a request is with the service
Awaiting == \E k \in DOMAIN ui.sessions : ui.sessions[k].pc = "Submitted"

\* SpecRestart where a request that has reached the service is answered:
\* weak fairness of Answered, written out (Answered is enabled exactly when
\* Awaiting holds)
SpecRestartFair ==
    SpecRestart /\ ([]<>(~Awaiting) \/ []<><<Answered>>_vars)

\* a restarted session whose request has reached the service, the signer
\* holding the grants, ends Fulfilled unless the service evaluated the
\* request outside the new window
RestartSettles ==
    \A k \in 1..MaxStarted :
        (/\ k \in DOMAIN ui.sessions
         /\ AfterExpired(ui.sessions, k)
         /\ ui.sessions[k].pc = "Submitted"
         /\ HoldsGrants(ui.sessions[k]))
            ~> (/\ k \in DOMAIN ui.sessions
                /\ \/ ui.sessions[k].pc = "Fulfilled"
                   \/ /\ ui.sessions[k].pc = "Expired"
                      /\ ui.sessions[k].window # "inside")

\* C23: expiry is recoverable by restart.  After a session ended Expired, a
\* new session builds a new authorization with a new key pair and the time
\* of the restart as start time, never resubmits the expired authorization
\* or signature, and, the signer holding the grants and the request
\* reaching the service inside the new window, eventually is Fulfilled.
C23_RestartRecovers == RestartSteps /\ RestartSettles

\* a session expired at the end of its window and the restart was fulfilled
C23_Witness ==
    /\ Len(ui.sessions) = 2
    /\ ui.sessions[1].pc = "Expired"
    /\ ui.sessions[1].window = "late"
    /\ ui.sessions[2].pc = "Fulfilled"
    /\ ui.sessions[2].index = ui.sessions[1].index
    /\ ui.sessions[2].address = ui.sessions[1].address
    /\ ui.sessions[2].index \in DOMAIN ui.decryptedEntries

\* a session expired before its window and the restart was fulfilled
C23_WitnessEarly ==
    /\ Len(ui.sessions) = 2
    /\ ui.sessions[1].pc = "Expired"
    /\ ui.sessions[1].window = "early"
    /\ ui.sessions[2].pc = "Fulfilled"
    /\ ui.sessions[2].window = "inside"

\* the restart expired as well
C23_WitnessAgain ==
    /\ Len(ui.sessions) = 2
    /\ ui.sessions[1].pc = "Expired"
    /\ ui.sessions[2].pc = "Expired"

----------------------------------------------------------------------------
(* Decryption requests and the client's handling of the answer (SpecService) *)

TargetSets == {{Vault}, {OtherContract}, {Vault, OtherContract}}

\* a request sent to the service by signer for the key handle of entry i1 of
\* o1 and the secret handle of entry i2 of o2, with an authorization for the
\* contracts in targets that starts now
ServiceRequest(signer, o1, i1, o2, i2, targets) ==
    /\ InRange(entries[o1], i1)
    /\ InRange(entries[o2], i2)
    /\ LET batch == <<[handle |-> entries[o1][i1 + 1].encryptedKey,
                       contractAddress |-> Vault],
                      [handle |-> entries[o2][i2 + 1].encryptedSecret,
                       contractAddress |-> Vault]>>
           auth == [contractAddresses |-> targets, startTimeStamp |-> now,
                    durationDays |-> DurationDays]
           r == userDecrypt(acl, batch, signer, auth, now)
       IN last' = [NoCall EXCEPT !.op = "request", !.caller = signer,
                                 !.ok = r.outcome = "Fulfilled",
                                 !.outcome = r.outcome, !.err = r.err,
                                 !.value = r.vals, !.input = <<batch, auth>>]
    /\ UNCHANGED <<entries, acl, events, now, stored, ui>>

NextService ==
    \/ \E u \in Users : Connect(u)
    \/ InstanceLoaded
    \/ \E index \in 0..1 : StartDecrypt(index)
    \/ \E k \in 1..MaxSessions, skew \in ClockSkews : BuildAuth(k, skew)
    \/ \E k \in 1..MaxSessions : WalletSign(k)
    \/ \E k \in 1..MaxSessions : WalletDecline(k)
    \/ \E k \in 1..MaxSessions : Submit(k)
    \/ \E k \in 1..MaxSessions : ServiceRespond(k)
    \/ \E signer \in Users, o1 \in Users, o2 \in Users, i1 \in 0..1,
          i2 \in 0..1, targets \in TargetSets :
           ServiceRequest(signer, o1, i1, o2, i2, targets)

SpecService == InitSession /\ [][NextService]_vars

\* a handle of the request lacks the signer's grant, or the contract it is
\* requested for is not a target of the authorization
BatchUnauthorized(batch, signer, auth) ==
    \E i \in DOMAIN batch :
        \/ ~isAuthorized(acl, batch[i].handle, signer)
        \/ batch[i].contractAddress \notin auth.contractAddresses

\* the plaintext pair the client shows for entry e
ShownFor(e) ==
    <<decodeAddressValue(e.encryptedKey.val).val,
      decodeSecretValue(e.encryptedSecret.val).val>>

\* C13: a request with a handle the signer has no grant on, or for a
\* contract outside the authorization's targets, is Denied as a whole with
\* Unauthorized and returns no plaintext, also for the handles the signer
\* does hold; and the client records a decrypted entry only for a session
\* that got both plaintexts of its entry, and nothing for any other session.
C13_BatchAllOrNothing ==
    /\ last.op = "request" =>
           /\ BatchUnauthorized(last.input[1], last.caller, last.input[2]) =>
                  /\ last.outcome = "Denied"
                  /\ last.err = "Unauthorized"
                  /\ last.value = <<>>
           /\ last.value # <<>> =>
                  /\ last.outcome = "Fulfilled"
                  /\ DOMAIN last.value = DOMAIN last.input[1]
    /\ \A k \in DOMAIN ui.sessions :
           LET s == ui.sessions[k]
           IN /\ s.pc # "Fulfilled" => s.value = <<>>
              /\ s.value # <<>> =>
                     s.value = ShownFor(entries[s.address][s.index + 1])
    /\ \A i \in DOMAIN ui.decryptedEntries :
           \E k \in DOMAIN ui.sessions :
               /\ ui.sessions[k].index = i
               /\ ui.sessions[k].pc = "Fulfilled"
               /\ ui.sessions[k].value = ui.decryptedEntries[i]

C13_Witness ==
    /\ last.op = "request" /\ last.outcome = "Denied"
    /\ isAuthorized(acl, last.input[1][1].handle, last.caller)
    /\ ~isAuthorized(acl, last.input[1][2].handle, last.caller)
    /\ Vault \in last.input[2].contractAddresses
    /\ \E k \in DOMAIN ui.sessions :
           /\ ui.sessions[k].pc = "Expired"
           /\ ui.decryptedEntries = <<>>

C13_WitnessRecorded ==
    /\ last.op = "request" /\ last.outcome = "Fulfilled"
    /\ \E k \in DOMAIN ui.sessions :
           /\ ui.sessions[k].pc = "Fulfilled"
           /\ ui.sessions[k].index \in DOMAIN ui.decryptedEntries

C13_WitnessTargets ==
    /\ last.op = "request" /\ last.outcome = "Denied"
    /\ \A i \in DOMAIN last.input[1] :
           isAuthorized(acl, last.input[1][i].handle, last.caller)

----------------------------------------------------------------------------
(* ui/src/components/SecretApp.tsx handleStoreSecret (SpecForm) *)

UiSecrets == {<<>>, TextA, Text31, Text32}

\* isSecretValid (line 65)
isSecretValid(secretInput) ==
    getUtf8ByteLength(secretInput) > 0
    /\ getUtf8ByteLength(secretInput) <= MAX_SECRET_BYTES

\* handleStoreSecret with the component state u: [ok, err, net, st, ui]
UiStoreSecret(st, u, signerAvailable, t) ==
    LET fail(e, calls) ==
            [ok |-> FALSE, err |-> e, net |-> calls, st |-> st,
             ui |-> [u EXCEPT !.formError = e]]
    IN IF u.address = "" THEN fail("NotConnected", <<>>)
       ELSE IF ~u.instance THEN fail("ServiceNotReady", <<>>)
       ELSE IF u.randomAddress = <<>> THEN fail("NoAddress", <<>>)
       ELSE IF ~isSecretValid(u.secretInput) THEN fail("InvalidInput", <<>>)
       ELSE IF ~signerAvailable THEN fail("NoSigner", <<"signer">>)
       ELSE
       LET encodedSecret == encodeBytes32String(u.secretInput)
           keyAddress == getAddress(u.randomAddress)
       IN IF ~encodedSecret.ok \/ ~keyAddress.ok
          THEN [ok |-> FALSE, err |-> "TransactionFailed",
                net |-> <<"signer">>, st |-> st,
                ui |-> [u EXCEPT !.submitStatus = "",
                                 !.formError = "TransactionFailed"]]
          ELSE
          LET encryptedInput ==
                  createEncryptedInput(Vault, u.address, keyAddress.val,
                                       BigInt(encodedSecret.val), 1)
              tx == storeSecret(st, u.address, encryptedInput.handles[1],
                                encryptedInput.handles[2],
                                encryptedInput.inputProof, t)
          IN IF ~tx.ok
             THEN [ok |-> FALSE, err |-> "TransactionFailed",
                   net |-> <<"signer", "encrypt", "storeSecret">>, st |-> st,
                   ui |-> [u EXCEPT !.submitStatus = "",
                                    !.formError = "TransactionFailed"]]
             ELSE [ok |-> TRUE, err |-> "",
                   net |-> <<"signer", "encrypt", "storeSecret",
                             "refetchSecretCount", "refetchEntries">>,
                   st |-> tx.st,
                   ui |-> [u EXCEPT !.formError = "",
                                    !.submitStatus = "Secret stored successfully.",
                                    !.secretInput = <<>>,
                                    !.randomAddress = <<>>]]

\* the secret textarea changes
SetSecretInput(value) ==
    /\ ui.secretInput # value
    /\ ui' = [ui EXCEPT !.secretInput = value]
    /\ UNCHANGED <<entries, acl, events, now, stored, last>>

\* handleGenerateAddress
GenerateAddress ==
    /\ ui.randomAddress # AddrB
    /\ ui' = [ui EXCEPT !.randomAddress = AddrB, !.formError = ""]
    /\ UNCHANGED <<entries, acl, events, now, stored, last>>

\* handleStoreSecret is called
ClickStore(signerAvailable) ==
    /\ Len(events) < MaxCmdStores
    /\ LET r == UiStoreSecret(Ledger, ui, signerAvailable, now)
       IN /\ Commit(r.st)
          /\ ui' = r.ui
          /\ stored' = IF r.ok
                       THEN [stored EXCEPT ![ui.address] =
                               Append(@, [entry |-> r.st.entries[ui.address]
                                              [Len(r.st.entries[ui.address])],
                                          proof |-> createEncryptedInput(
                                              Vault, ui.address,
                                              ui.randomAddress,
                                              BigInt(encodeBytes32String(
                                                  ui.secretInput).val),
                                              1).inputProof,
                                          input |-> <<ui.randomAddress,
                                                      ui.secretInput>>])]
                       ELSE stored
          /\ last' = [NoCall EXCEPT
                        !.op = "uistore", !.caller = ui.address,
                        !.owner = ui.address, !.ok = r.ok, !.err = r.err,
                        !.net = r.net,
                        !.input = <<ui.randomAddress, ui.secretInput>>]
    /\ UNCHANGED now

NextForm ==
    \/ \E u \in Users : Connect(u)
    \/ InstanceLoaded
    \/ \E value \in UiSecrets : SetSecretInput(value)
    \/ GenerateAddress
    \/ \E signerAvailable \in BOOLEAN : ClickStore(signerAvailable)

SpecForm == Init /\ [][NextForm]_vars

\* the web client's store handler rejects an empty or too long secret before
\* any call leaves the client, and accepts a secret of 31 bytes
UiRejectedBeforeNetwork ==
    last.op = "uistore" =>
        LET length == getUtf8ByteLength(last.input[2])
        IN /\ (length = 0 \/ length > MAX_SECRET_BYTES) =>
                  /\ ~last.ok
                  /\ last.net = <<>>
                  /\ last.err \in {"InvalidInput", "NotConnected",
                                   "ServiceNotReady", "NoAddress"}
           /\ (length = MAX_SECRET_BYTES /\ last.err = "") => last.ok

UiRejectedWitness ==
    /\ last.op = "uistore" /\ last.err = "InvalidInput"
    /\ getUtf8ByteLength(last.input[2]) = MAX_SECRET_BYTES + 1

UiAcceptedWitness ==
    /\ last.op = "uistore" /\ last.ok
    /\ getUtf8ByteLength(last.input[2]) = MAX_SECRET_BYTES

====
